---- MODULE Spec2Model ----
(***************************************************************************)
(* Model of iot_mqtt_serializer_deserializer_wrapper.c: the packet          *)
(* identifier generator, the status translator and the serialize wrappers   *)
(* that sit between the MQTT client and the lightweight MQTT library.       *)
(***************************************************************************)
EXTENDS Integers, Sequences, FiniteSets, TLC

(***************************************************************************)
(* Bounds of the model.                                                     *)
(***************************************************************************)
NumThreads == 2
MaxGenCalls == 2
MaxCalls == 2
MaxPacketSize == 3
MaxConversions == 2
MaxParses == 2

Threads == 1 .. NumThreads

(***************************************************************************)
(* 32-bit and 16-bit unsigned arithmetic.  A uint32_t is kept as its two    *)
(* 16-bit halves, value = hi * 65536 + lo, so that the wrap modulo 2^32 is  *)
(* computed exactly.                                                        *)
(***************************************************************************)
TwoTo15 == 32768
TwoTo16 == 65536

U32Add(a, n) ==
    LET s == a.lo + n
    IN  [hi |-> (a.hi + (s \div TwoTo16)) % TwoTo16, lo |-> s % TwoTo16]

CastU16(w) == w.lo

(***************************************************************************)
(* iot_atomic.h: Atomic_Add_u32 adds count to *pAddend in one indivisible   *)
(* step and returns the value *pAddend held before the addition.            *)
(***************************************************************************)
Atomic_Add_u32(addend, count) ==
    [prev |-> addend, new |-> U32Add(addend, count)]

(***************************************************************************)
(* static uint32_t nextPacketIdentifier = 1;                                *)
(***************************************************************************)
nextPacketIdentifierInit == 1

(***************************************************************************)
(* _nextPacketIdentifier: the value returned and the counter afterwards.    *)
(***************************************************************************)
_nextPacketIdentifier_NonStatic(counter) ==
    [ret |-> nextPacketIdentifierInit, counter |-> counter]

_nextPacketIdentifier_ReturnsNew(counter) ==
    LET r == Atomic_Add_u32(counter, 2)
    IN  [ret |-> CastU16(r.new), counter |-> r.new]

_nextPacketIdentifier_AddOne(counter) ==
    LET r == Atomic_Add_u32(counter, 1)
    IN  [ret |-> CastU16(r.prev), counter |-> r.new]

_nextPacketIdentifier(counter) ==
    LET r == Atomic_Add_u32(counter, 2)
    IN  [ret |-> CastU16(r.prev), counter |-> r.new]

(***************************************************************************)
(* The number of calls made to the generator since the process started is   *)
(* kept as [pass, n]: k = pass * 32768 + n.  CounterAfter(k) is the value   *)
(* of the static counter after k calls, nextPacketIdentifierInit + 2k       *)
(* modulo 2^32.                                                             *)
(***************************************************************************)
CallsPlusOne(k) ==
    [pass |-> k.pass + ((k.n + 1) \div TwoTo15), n |-> (k.n + 1) % TwoTo15]

RECURSIVE CallsPlus(_, _)
CallsPlus(k, i) == IF i = 0 THEN k ELSE CallsPlus(CallsPlusOne(k), i - 1)

CounterAfter(k) ==
    U32Add([hi |-> k.pass % TwoTo16, lo |-> 2 * k.n], nextPacketIdentifierInit)

(* Call counts the runs start from: a fresh process, one call before the    *)
(* 16-bit wrap of the returned value, one call before the 32-bit wrap of    *)
(* the counter.                                                             *)
StartCalls ==
    { [pass |-> 0, n |-> 0],
      [pass |-> 0, n |-> TwoTo15 - 1],
      [pass |-> TwoTo16 - 1, n |-> TwoTo15 - 1] }

NoValue == -1
NULL == 0

VARIABLES
    nextPacketIdentifier,  \* the static counter of _nextPacketIdentifier
    startCalls,            \* generator calls made before the run starts
    issued,                \* generator calls made so far
    gen,                   \* per thread: a direct caller of the generator
    heap,                  \* blocks handed out by IotMqtt_MallocMessage
    handed,                \* addresses given to a caller by a successful call
    call,                  \* per thread: the wrapper call in progress
    out,                   \* per thread: the caller's output variables
    ncalls,                \* wrapper calls started
    convLog,               \* conversions made by convertReturnCode
    parse                  \* the last call of a deserialize wrapper

vars == << nextPacketIdentifier, startCalls, issued, gen, heap, handed,
           call, out, ncalls, convLog, parse >>

genVars == << gen >>
wrapVars == << heap, handed, call, out, ncalls >>
counterVars == << nextPacketIdentifier, startCalls, issued >>

(***************************************************************************)
(* Direct callers of the generator.  A call is the atomic add followed by   *)
(* the return of the truncated value to the calling thread.                 *)
(***************************************************************************)
GenIdle == [pc |-> "ready", ret |-> NoValue, got |-> << >>]

GenCall(t) ==
    /\ gen[t].pc = "ready"
    /\ Len(gen[t].got) < MaxGenCalls
    /\ LET r == _nextPacketIdentifier(nextPacketIdentifier)
       IN  /\ nextPacketIdentifier' = r.counter
           /\ gen' = [gen EXCEPT ![t].pc = "fetched", ![t].ret = r.ret]
    /\ issued' = CallsPlusOne(issued)
    /\ UNCHANGED << startCalls, wrapVars, convLog, parse >>

GenReturn(t) ==
    /\ gen[t].pc = "fetched"
    /\ gen' = [gen EXCEPT ![t].pc = "ready", ![t].ret = NoValue,
                          ![t].got = Append(gen[t].got, gen[t].ret)]
    /\ UNCHANGED << counterVars, wrapVars, convLog, parse >>

(***************************************************************************)
(* MQTTStatus_t, the status of the lightweight MQTT library, and            *)
(* IotMqttError_t, the status of the MQTT client.  MQTTUnrecognized stands  *)
(* for any value that is not an enumerator named in convertReturnCode.      *)
(***************************************************************************)
MQTTSuccess == "MQTTSuccess"
MQTTBadParameter == "MQTTBadParameter"
MQTTNoMemory == "MQTTNoMemory"
MQTTSendFailed == "MQTTSendFailed"
MQTTRecvFailed == "MQTTRecvFailed"
MQTTBadResponse == "MQTTBadResponse"
MQTTServerRefused == "MQTTServerRefused"
MQTTNoDataAvailable == "MQTTNoDataAvailable"
MQTTKeepAliveTimeout == "MQTTKeepAliveTimeout"
MQTTIllegalState == "MQTTIllegalState"
MQTTStateCollision == "MQTTStateCollision"
MQTTUnrecognized == "MQTTUnrecognized"

MQTTStatus_t ==
    { MQTTSuccess, MQTTBadParameter, MQTTNoMemory, MQTTSendFailed,
      MQTTRecvFailed, MQTTBadResponse, MQTTServerRefused,
      MQTTNoDataAvailable, MQTTKeepAliveTimeout, MQTTIllegalState,
      MQTTStateCollision, MQTTUnrecognized }

IOT_MQTT_SUCCESS == "IOT_MQTT_SUCCESS"
IOT_MQTT_BAD_PARAMETER == "IOT_MQTT_BAD_PARAMETER"
IOT_MQTT_NO_MEMORY == "IOT_MQTT_NO_MEMORY"
IOT_MQTT_NETWORK_ERROR == "IOT_MQTT_NETWORK_ERROR"
IOT_MQTT_BAD_RESPONSE == "IOT_MQTT_BAD_RESPONSE"
IOT_MQTT_SERVER_REFUSED == "IOT_MQTT_SERVER_REFUSED"
IOT_MQTT_TIMEOUT == "IOT_MQTT_TIMEOUT"

(***************************************************************************)
(* convertReturnCode.  The switch is followed label by label: a case that   *)
(* ends in break yields the status it assigned; a case with no break runs   *)
(* on into the statements of the next label.                                *)
(***************************************************************************)
CaseDefault(status) == IOT_MQTT_SUCCESS

CaseIllegalState(status) == CaseDefault(IOT_MQTT_BAD_RESPONSE)

CaseNoDataAvailable(status) == CaseIllegalState(IOT_MQTT_TIMEOUT)

(* The switch with the break after IOT_MQTT_NETWORK_ERROR left out. *)
convertReturnCode_NoBreakAfterNetworkError(mqttStatus) ==
    CASE mqttStatus = MQTTSuccess -> IOT_MQTT_SUCCESS
      [] mqttStatus = MQTTBadParameter -> IOT_MQTT_BAD_PARAMETER
      [] mqttStatus = MQTTNoMemory -> IOT_MQTT_NO_MEMORY
      [] mqttStatus \in {MQTTSendFailed, MQTTRecvFailed} ->
             IOT_MQTT_BAD_RESPONSE
      [] mqttStatus = MQTTBadResponse -> IOT_MQTT_BAD_RESPONSE
      [] mqttStatus = MQTTServerRefused -> IOT_MQTT_SERVER_REFUSED
      [] OTHER -> IOT_MQTT_SUCCESS

(* The switch with a default label that reports a bad response. *)
convertReturnCode_DefaultBadResponse(mqttStatus) ==
    CASE mqttStatus = MQTTSuccess -> IOT_MQTT_SUCCESS
      [] mqttStatus = MQTTBadParameter -> IOT_MQTT_BAD_PARAMETER
      [] mqttStatus = MQTTNoMemory -> IOT_MQTT_NO_MEMORY
      [] mqttStatus \in {MQTTSendFailed, MQTTRecvFailed} ->
             IOT_MQTT_NETWORK_ERROR
      [] mqttStatus = MQTTBadResponse -> IOT_MQTT_BAD_RESPONSE
      [] mqttStatus = MQTTServerRefused -> IOT_MQTT_SERVER_REFUSED
      [] OTHER -> IOT_MQTT_BAD_RESPONSE

convertReturnCode(mqttStatus) ==
    LET status == IOT_MQTT_SUCCESS
    IN  CASE mqttStatus = MQTTSuccess -> IOT_MQTT_SUCCESS
          [] mqttStatus = MQTTBadParameter -> IOT_MQTT_BAD_PARAMETER
          [] mqttStatus = MQTTNoMemory -> IOT_MQTT_NO_MEMORY
          [] mqttStatus \in {MQTTSendFailed, MQTTRecvFailed} ->
                 IOT_MQTT_NETWORK_ERROR
          [] mqttStatus = MQTTBadResponse -> IOT_MQTT_BAD_RESPONSE
          [] mqttStatus = MQTTServerRefused -> IOT_MQTT_SERVER_REFUSED
          [] mqttStatus \in {MQTTNoDataAvailable, MQTTKeepAliveTimeout} ->
                 CaseNoDataAvailable(status)
          [] mqttStatus \in {MQTTIllegalState, MQTTStateCollision} ->
                 CaseIllegalState(status)
          [] OTHER -> CaseDefault(status)

(* One call of the translator on a status the caller supplies. *)
Convert(s) ==
    /\ Len(convLog) < MaxConversions
    /\ convLog' = Append(convLog,
                         [mqttStatus |-> s, status |-> convertReturnCode(s)])
    /\ UNCHANGED << counterVars, genVars, wrapVars, parse >>

(***************************************************************************)
(* The serialize wrappers.                                                  *)
(***************************************************************************)
MQTT_PACKET_PUBACK_SIZE == 4

Builders ==
    { "Connect", "Disconnect", "Subscribe", "Unsubscribe", "Publish",
      "Pingreq", "Puback" }
IdBuilders == { "Subscribe", "Unsubscribe", "Publish" }
ListBuilders == { "Subscribe", "Unsubscribe" }

(* Statuses the size queries and the serializers of the library report. *)
BuilderStatus == { MQTTSuccess, MQTTBadParameter, MQTTNoMemory }

(* Sizes a size query reports: the total size and the remaining length that *)
(* goes with it (one byte of packet type, one byte of encoded length).      *)
PacketSizes == 2 .. MaxPacketSize
RemainingLengthOf(packetSize) == packetSize - 2

(* Memory the caller owns: the topic name and the payload of a publish      *)
(* request.  A pointer is a region and an offset into it; the region "rx"   *)
(* is the remaining data of a received packet.                              *)
CallerMemory == [topic |-> <<97, 47, 98>>, payload |-> <<1, 2>>]

Ptr(base, off) == [base |-> base, off |-> off]
NullPtr == Ptr("null", 0)

BytesAt(mem, ptr, len) == SubSeq(mem[ptr.base], ptr.off + 1, ptr.off + len)

(* IotMqttQos_t and MQTTQoS_t use the same numbers. *)
IOT_MQTT_QOS_0 == 0
IOT_MQTT_QOS_1 == 1
IOT_MQTT_QOS_2 == 2

(* IotMqttPublishInfo_t, the fields the wrappers read and write. *)
PublishInfoOf(qos, retain) ==
    [ qos |-> qos, retain |-> retain,
      pTopicName |-> Ptr("topic", 0), topicNameLength |-> 3,
      pPayload |-> Ptr("payload", 0), payloadLength |-> 2 ]

NoPublishInfo ==
    [ qos |-> IOT_MQTT_QOS_0, retain |-> FALSE,
      pTopicName |-> NullPtr, topicNameLength |-> 0,
      pPayload |-> NullPtr, payloadLength |-> 0 ]

(* The publish requests of the runs that follow a message from the caller   *)
(* to the wire and back.                                                    *)
PublishRequests ==
    { [subscriptionCount |-> 0, packetIdentifier |-> 0,
       publish |-> PublishInfoOf(q, r)]
      : q \in {IOT_MQTT_QOS_0, IOT_MQTT_QOS_1, IOT_MQTT_QOS_2},
        r \in BOOLEAN }

(* Identifiers given to the Puback wrapper. *)
PubackIdentifiers == { 0, 7, TwoTo16 - 1 }

(* Requests the caller makes: the number of subscriptions of Subscribe and  *)
(* Unsubscribe, the identifier given to the Puback wrapper, the message of  *)
(* Publish.                                                                 *)
Requests(op) ==
    IF op \in ListBuilders
    THEN { [subscriptionCount |-> 1, packetIdentifier |-> 0,
            publish |-> NoPublishInfo] }
    ELSE IF op = "Puback"
    THEN { [subscriptionCount |-> 0, packetIdentifier |-> i,
            publish |-> NoPublishInfo] : i \in PubackIdentifiers }
    ELSE IF op = "Publish"
    THEN { [subscriptionCount |-> 0, packetIdentifier |-> 0,
            publish |-> PublishInfoOf(IOT_MQTT_QOS_1, FALSE)] }
    ELSE { [subscriptionCount |-> 0, packetIdentifier |-> 0,
            publish |-> NoPublishInfo] }

(* MQTTPublishInfo_t as _publishSerializeWrapper fills it: every field is   *)
(* copied from the request, dup is set from the QoS.                        *)
TranslatePublishInfo_DupCopied(p) ==
    [ retain |-> p.retain,
      pTopicName |-> p.pTopicName, topicNameLength |-> p.topicNameLength,
      pPayload |-> p.pPayload, payloadLength |-> p.payloadLength,
      qos |-> p.qos, dup |-> FALSE ]

TranslatePublishInfo(p) ==
    [ retain |-> p.retain,
      pTopicName |-> p.pTopicName, topicNameLength |-> p.topicNameLength,
      pPayload |-> p.pPayload, payloadLength |-> p.payloadLength,
      qos |-> p.qos, dup |-> (p.qos = IOT_MQTT_QOS_1) ]

(* A wrapper that has no MQTTPublishInfo_t. *)
NoInfo ==
    [ retain |-> FALSE, pTopicName |-> NullPtr, topicNameLength |-> 0,
      pPayload |-> NullPtr, payloadLength |-> 0,
      qos |-> IOT_MQTT_QOS_0, dup |-> FALSE ]

(***************************************************************************)
(* The PUBLISH packet of MQTT 3.1.1 as the library writes and reads it:     *)
(* the byte of type and flags, the remaining length, the topic with its     *)
(* two bytes of length, the packet identifier when the QoS is not 0, the    *)
(* payload.  Lengths stay below 128, so the remaining length is one byte.   *)
(***************************************************************************)
MQTT_PACKET_TYPE_PUBLISH == 48
MQTT_PACKET_TYPE_PUBACK == 64

(* The first byte of the packets the other builders ask for. *)
PacketTypeOf(op) ==
    CASE op = "Connect" -> 16
      [] op = "Publish" -> MQTT_PACKET_TYPE_PUBLISH
      [] op = "Puback" -> MQTT_PACKET_TYPE_PUBACK
      [] op = "Subscribe" -> 130
      [] op = "Unsubscribe" -> 162
      [] op = "Pingreq" -> 192
      [] op = "Disconnect" -> 224

(* No packet type: 0 is reserved. *)
NoType == 0

Bit(b) == IF b THEN 1 ELSE 0
U16Bytes(n) == << n \div 256, n % 256 >>
U16Of(hi, lo) == hi * 256 + lo

PublishRemainingLength(info) ==
    2 + info.topicNameLength + (IF info.qos > 0 THEN 2 ELSE 0)
      + info.payloadLength

PublishPacketSize(info) == 2 + PublishRemainingLength(info)

EncodePublish(info, packetId, mem) ==
    << MQTT_PACKET_TYPE_PUBLISH + 8 * Bit(info.dup) + 2 * info.qos
         + Bit(info.retain),
       PublishRemainingLength(info) >>
    \o U16Bytes(info.topicNameLength)
    \o BytesAt(mem, info.pTopicName, info.topicNameLength)
    \o (IF info.qos > 0 THEN U16Bytes(packetId) ELSE << >>)
    \o BytesAt(mem, info.pPayload, info.payloadLength)

(* What MQTT_DeserializePublish reads from the type byte and the remaining  *)
(* data of a received PUBLISH; the topic and the payload it returns point   *)
(* into the remaining data.                                                 *)
DecodePublish(type, data) ==
    LET flags == type % 16
        qos == (flags \div 2) % 4
        topicLen == U16Of(data[1], data[2])
        idLen == IF qos > 0 THEN 2 ELSE 0
    IN  [ packetId |-> IF qos > 0
                       THEN U16Of(data[topicLen + 3], data[topicLen + 4])
                       ELSE 0,
          info |-> [ retain |-> flags % 2 = 1,
                     pTopicName |-> Ptr("rx", 2),
                     topicNameLength |-> topicLen,
                     pPayload |-> Ptr("rx", 2 + topicLen + idLen),
                     payloadLength |-> Len(data) - 2 - topicLen - idLen,
                     qos |-> qos,
                     dup |-> (flags \div 8) % 2 = 1 ] ]

(* IotMqtt_MallocMessage: NULL, or the address of a block that was not      *)
(* allocated before.  The heap is the sequence of the blocks allocated so   *)
(* far, a block's address is its index; the file never frees a block.       *)
MallocResults == { NULL, Len(heap) + 1 }

(* What a serializer was asked to write: the packet type, the packet       *)
(* identifier and, for a PUBLISH, the bytes of the packet.                  *)
NoPacket == [type |-> NoType, packetId |-> NoValue, bytes |-> << >>]

HeapAfterMalloc(h, result, size, use, by) ==
    IF result = NULL
    THEN h
    ELSE Append(h, [size |-> size, use |-> use, by |-> by,
                    data |-> NoPacket])

OutIdle == [pPacket |-> NULL, packetSize |-> 0, packetIdentifier |-> 0]

CallIdle ==
    [ pc |-> "idle", op |-> "none", id |-> 0,
      req |-> [subscriptionCount |-> 0, packetIdentifier |-> 0,
               publish |-> NoPublishInfo],
      \* locals of the wrapper
      status |-> IOT_MQTT_SUCCESS, mqttStatus |-> MQTTSuccess,
      remainingLength |-> 0, packetId |-> 0,
      subscriptionList |-> NoValue, publishInfo |-> NoInfo,
      networkBuffer |-> [pBuffer |-> NoValue, size |-> NoValue],
      ret |-> "none",
      \* what the call did, kept to state the properties
      pre |-> [out |-> OutIdle, counter |-> NoValue],
      sizeStatus |-> "none", reported |-> NoValue,
      mallocSize |-> NoValue, mallocResult |-> NoValue,
      serStatus |-> "none", serBuffer |-> NoValue, serPacketId |-> NoValue,
      idCalls |-> 0,
      sizeInfo |-> NoInfo, serInfo |-> NoInfo, serType |-> NoType,
      steps |-> << >> ]

(* The order of the steps of a wrapper: the step that follows step pc of    *)
(* wrapper op when the status after step pc is status.                      *)
NextStep_IdAtEntry(op, pc, status) ==
    CASE pc = "begin" -> IF op = "Puback" THEN "alloc"
                         ELSE IF op \in IdBuilders THEN "id" ELSE "size"
      [] pc = "size" -> IF status = IOT_MQTT_SUCCESS THEN "alloc" ELSE "final"
      [] pc = "id" -> "size"
      [] pc = "alloc" -> "serialize"
      [] pc = "serialize" -> "final"
      [] pc = "final" -> "done"

NextStep_NoIdForPublish(op, pc, status) ==
    CASE pc = "begin" -> IF op = "Puback" THEN "alloc" ELSE "size"
      [] pc = "size" -> IF status = IOT_MQTT_SUCCESS
                        THEN IF op \in ListBuilders THEN "id" ELSE "alloc"
                        ELSE "final"
      [] pc = "id" -> "alloc"
      [] pc = "alloc" -> "serialize"
      [] pc = "serialize" -> "final"
      [] pc = "final" -> "done"

NextStep(op, pc, status) ==
    CASE pc = "begin" -> IF op = "Puback" THEN "alloc" ELSE "size"
      [] pc = "size" -> IF status = IOT_MQTT_SUCCESS
                        THEN IF op \in IdBuilders THEN "id" ELSE "alloc"
                        ELSE "final"
      [] pc = "id" -> "alloc"
      [] pc = "alloc" -> "serialize"
      [] pc = "serialize" -> "final"
      [] pc = "final" -> "done"

(* Entry of a wrapper: the declarations with their initializers and the     *)
(* translation of the request.  Subscribe and Unsubscribe allocate the      *)
(* translated subscription list here and fill it in a loop; writing the     *)
(* list through a NULL pointer is undefined: the call either faults or      *)
(* goes on with the NULL list.                                              *)
Begin(t, op, req, listResult, faults) ==
    /\ call[t].pc \in {"idle", "done"}
    /\ ncalls < MaxCalls
    /\ ncalls' = ncalls + 1
    /\ LET isList == op \in ListBuilders
           c == [CallIdle EXCEPT
                   !.op = op, !.id = ncalls + 1, !.req = req,
                   !.pre = [out |-> out[t], counter |-> nextPacketIdentifier],
                   !.subscriptionList =
                       IF isList THEN listResult ELSE NoValue,
                   !.publishInfo =
                       IF op = "Publish"
                       THEN TranslatePublishInfo(req.publish) ELSE NoInfo,
                   !.pc = IF isList /\ listResult = NULL /\ faults
                          THEN "fault"
                          ELSE NextStep(op, "begin", IOT_MQTT_SUCCESS)]
       IN  /\ isList => listResult \in MallocResults
           /\ ~isList => listResult = NULL
           /\ faults => isList /\ listResult = NULL
           /\ call' = [call EXCEPT ![t] = c]
           /\ heap' = IF isList
                      THEN HeapAfterMalloc(heap, listResult,
                                           req.subscriptionCount, "list",
                                           <<t, ncalls + 1>>)
                      ELSE heap
    /\ UNCHANGED << counterVars, genVars, handed, out, convLog, parse >>

(* MQTT_Get...PacketSize followed by convertReturnCode.  The query writes   *)
(* the remaining length and, through the caller's pPacketSize, the packet   *)
(* size when it reports success.                                            *)
SizeQuery(t, s, sz) ==
    /\ call[t].pc = "size"
    /\ LET st == convertReturnCode(s)
           o == IF s = MQTTSuccess
                THEN [out[t] EXCEPT !.packetSize = sz]
                ELSE out[t]
       IN  /\ out' = [out EXCEPT ![t] = o]
           /\ call' = [call EXCEPT
                  ![t].mqttStatus = s,
                  ![t].status = st,
                  ![t].remainingLength =
                      IF s = MQTTSuccess THEN RemainingLengthOf(sz) ELSE @,
                  ![t].sizeStatus = s,
                  ![t].reported = o.packetSize,
                  ![t].sizeInfo = call[t].publishInfo,
                  ![t].steps = Append(@, "size"),
                  ![t].pc = NextStep(call[t].op, "size", st)]
    /\ UNCHANGED << counterVars, genVars, heap, handed, ncalls, convLog, parse >>

(* packetId = _nextPacketIdentifier(); *)
NextId(t) ==
    /\ call[t].pc = "id"
    /\ LET r == _nextPacketIdentifier(nextPacketIdentifier)
       IN  /\ nextPacketIdentifier' = r.counter
           /\ call' = [call EXCEPT
                  ![t].packetId = r.ret,
                  ![t].idCalls = @ + 1,
                  ![t].steps = Append(@, "id"),
                  ![t].pc = NextStep(call[t].op, "id", call[t].status)]
    /\ issued' = CallsPlusOne(issued)
    /\ UNCHANGED << startCalls, genVars, heap, handed, out, ncalls, convLog, parse >>

(* The size the wrapper asks IotMqtt_MallocMessage for. *)
MallocRequest_RemainingLength(c, o) ==
    IF c.op = "Puback" THEN MQTT_PACKET_PUBACK_SIZE ELSE c.remainingLength

MallocRequest(c, o) ==
    IF c.op = "Puback" THEN MQTT_PACKET_PUBACK_SIZE ELSE o.packetSize

(* networkBuffer.pBuffer = IotMqtt_MallocMessage( size );                   *)
(* networkBuffer.size = size; the Puback wrapper also sets *pPacketSize.    *)
Alloc(t, result) ==
    /\ call[t].pc = "alloc"
    /\ result \in MallocResults
    /\ LET size == MallocRequest(call[t], out[t])
       IN  /\ heap' = HeapAfterMalloc(heap, result, size, "packet",
                                      <<t, call[t].id>>)
           /\ call' = [call EXCEPT
                  ![t].networkBuffer = [pBuffer |-> result, size |-> size],
                  ![t].mallocSize = size,
                  ![t].mallocResult = result,
                  ![t].steps = Append(@, "alloc"),
                  ![t].pc = NextStep(call[t].op, "alloc", call[t].status)]
           /\ out' = IF call[t].op = "Puback"
                     THEN [out EXCEPT
                             ![t].packetSize = MQTT_PACKET_PUBACK_SIZE]
                     ELSE out
    /\ UNCHANGED << counterVars, genVars, handed, ncalls, convLog, parse >>

(* The status a wrapper holds after its serialize call, s being what the    *)
(* serializer returned.  The Puback wrapper assigns the result of           *)
(* MQTT_SerializeAck to status and then overwrites status with the          *)
(* translation of mqttStatus, which still holds its initializer.            *)
StatusAfterSerialize(c, s) ==
    IF c.op = "Puback"
    THEN convertReturnCode(c.mqttStatus)
    ELSE convertReturnCode(s)

(* The packet identifier a wrapper passes to its serializer: the one it    *)
(* was given for Puback, the one it generated otherwise (0 when it          *)
(* generated none).                                                         *)
SerializePacketId_Local(c) == c.packetId

SerializePacketId(c) ==
    IF c.op = "Puback" THEN c.req.packetIdentifier ELSE c.packetId

(* The packet type a wrapper asks for: its own; the Puback wrapper passes   *)
(* packetTypeByte = MQTT_PACKET_TYPE_PUBACK to MQTT_SerializeAck.           *)
SerializeType(c) ==
    IF c.op = "Puback" THEN MQTT_PACKET_TYPE_PUBACK ELSE PacketTypeOf(c.op)

(* What a serializer that reports success has written to the buffer. *)
Written(c) ==
    [ type |-> SerializeType(c),
      packetId |-> SerializePacketId(c),
      bytes |-> IF c.op = "Publish"
                THEN EncodePublish(c.publishInfo, c.packetId, CallerMemory)
                ELSE << >> ]

(* MQTT_Serialize... on the network buffer, followed by convertReturnCode. *)
Serialize(t, s) ==
    /\ call[t].pc = "serialize"
    /\ LET st == StatusAfterSerialize(call[t], s)
           buf == call[t].networkBuffer.pBuffer
       IN  /\ call' = [call EXCEPT
                  ![t].mqttStatus = IF call[t].op = "Puback" THEN @ ELSE s,
                  ![t].status = st,
                  ![t].serStatus = s,
                  ![t].serBuffer = buf,
                  ![t].serPacketId = SerializePacketId(call[t]),
                  ![t].serType = SerializeType(call[t]),
                  ![t].serInfo = call[t].publishInfo,
                  ![t].steps = Append(@, "serialize"),
                  ![t].pc = NextStep(call[t].op, "serialize", st)]
           /\ heap' = IF s = MQTTSuccess /\ buf # NULL
                      THEN [heap EXCEPT ![buf].data = Written(call[t])]
                      ELSE heap
    /\ UNCHANGED << counterVars, genVars, handed, out, ncalls, convLog, parse >>

(* if( status == IOT_MQTT_SUCCESS ) { outputs are written } return status; *)
Final(t) ==
    /\ call[t].pc = "final"
    /\ LET c == call[t]
           ok == c.status = IOT_MQTT_SUCCESS
       IN  /\ out' = IF ok
                     THEN [out EXCEPT
                             ![t].pPacket = c.networkBuffer.pBuffer,
                             ![t].packetIdentifier =
                                 IF c.op \in IdBuilders THEN c.packetId ELSE @]
                     ELSE out
           /\ handed' = IF ok /\ c.networkBuffer.pBuffer # NULL
                        THEN handed \cup {c.networkBuffer.pBuffer}
                        ELSE handed
           /\ call' = [call EXCEPT
                  ![t].ret = c.status,
                  ![t].pc = NextStep(c.op, "final", c.status)]
    /\ UNCHANGED << counterVars, genVars, heap, ncalls, convLog, parse >>

(***************************************************************************)
(* The deserialize wrappers.  A call copies the type, the remaining data    *)
(* and the remaining length of the caller's _mqttPacket_t into an           *)
(* MQTTPacketInfo_t, calls the decoder with the address of the caller's     *)
(* packetIdentifier, and translates the status; the Publish wrapper then    *)
(* copies the decoded MQTTPublishInfo_t into the caller's publish info.     *)
(***************************************************************************)
Parsers == { "Connack", "Suback", "Unsuback", "Puback", "Pingresp", "Publish" }

(* The type byte of a received packet. *)
IncomingTypeOf(op) ==
    CASE op = "Connack" -> 32
      [] op = "Publish" -> MQTT_PACKET_TYPE_PUBLISH
      [] op = "Puback" -> MQTT_PACKET_TYPE_PUBACK
      [] op = "Suback" -> 144
      [] op = "Unsuback" -> 176
      [] op = "Pingresp" -> 208

(* A publish info the caller's descriptor holds from before the call. *)
StalePublishInfo ==
    [ qos |-> IOT_MQTT_QOS_2, retain |-> FALSE,
      pTopicName |-> Ptr("old", 0), topicNameLength |-> 1,
      pPayload |-> Ptr("old", 1), payloadLength |-> 1 ]

(* The values the local publishInfo of _deserializePublishWrapper can hold  *)
(* when the decoder has not written it: it has no initializer.              *)
Indeterminate ==
    { NoInfo,
      [ retain |-> TRUE, pTopicName |-> Ptr("stack", 0), topicNameLength |-> 1,
        pPayload |-> Ptr("stack", 1), payloadLength |-> 1,
        qos |-> IOT_MQTT_QOS_2, dup |-> TRUE ] }

(* The caller's _mqttPacket_t for a received packet: its type byte, the     *)
(* bytes after the fixed header, their number, and the output fields with   *)
(* the values they hold before the call.                                    *)
DescriptorOf(bytes, priorId, priorInfo) ==
    [ type |-> bytes[1],
      rx |-> SubSeq(bytes, 3, Len(bytes)),
      remainingLength |-> bytes[2],
      packetIdentifier |-> priorId,
      publishInfo |-> priorInfo ]

PriorIdentifiers == { 0, 5 }

(* The bytes of the packets received. *)
ReceivedBytes(op) ==
    CASE op = "Publish" ->
           { EncodePublish(TranslatePublishInfo(r.publish), 9, CallerMemory)
             : r \in PublishRequests }
      [] op = "Pingresp" -> { << IncomingTypeOf(op), 0 >> }
      [] op = "Connack" -> { << IncomingTypeOf(op), 2, 0, 0 >> }
      [] op = "Suback" -> { << IncomingTypeOf(op), 3, 0, 9, 1 >> }
      [] OTHER -> { << IncomingTypeOf(op), 2, 0, 9 >> }

Descriptors(op) ==
    { DescriptorOf(b, i, StalePublishInfo)
      : b \in ReceivedBytes(op), i \in PriorIdentifiers }

(* The decoders.  The packets that carry an identifier. *)
CarriesId(op) == op \in { "Suback", "Unsuback", "Puback", "Publish" }

(* What a decoder reads from a packet: the identifier and, for a PUBLISH,   *)
(* the publish info.                                                        *)
Decoded(op, in) ==
    IF op = "Publish"
    THEN DecodePublish(in.type, in.pRemainingData)
    ELSE [ packetId |-> IF CarriesId(op)
                        THEN U16Of(in.pRemainingData[1], in.pRemainingData[2])
                        ELSE 0,
           info |-> NoInfo ]

(* What a call of MQTT_DeserializeAck or MQTT_DeserializePublish can do:    *)
(* with MQTTSuccess it has written the identifier through pPacketId and     *)
(* the publish info it was given; with any other status it may have        *)
(* written the identifier before it stopped, and the publish info holds     *)
(* whatever it held.                                                        *)
DecoderOutcomes(op, in) ==
    LET d == Decoded(op, in)
    IN  { [ status |-> MQTTSuccess, idWritten |-> CarriesId(op),
            packetId |-> d.packetId, info |-> d.info ] }
        \cup
        { [ status |-> st, idWritten |-> w, packetId |-> d.packetId,
            info |-> i ]
          : st \in MQTTStatus_t \ { MQTTSuccess },
            w \in { FALSE, CarriesId(op) },
            i \in IF op = "Publish" THEN Indeterminate ELSE { NoInfo } }

(* The assignments of _deserializePublishWrapper to the caller's publish    *)
(* info.                                                                    *)
CopyPublishInfo_RetainLeft(publishInfo, nested) ==
    [ nested EXCEPT
        !.qos = publishInfo.qos,
        !.payloadLength = publishInfo.payloadLength,
        !.pPayload = publishInfo.pPayload,
        !.pTopicName = publishInfo.pTopicName,
        !.topicNameLength = publishInfo.topicNameLength ]

CopyPublishInfo(publishInfo, nested) ==
    [ nested EXCEPT
        !.qos = publishInfo.qos,
        !.payloadLength = publishInfo.payloadLength,
        !.pPayload = publishInfo.pPayload,
        !.pTopicName = publishInfo.pTopicName,
        !.topicNameLength = publishInfo.topicNameLength,
        !.retain = publishInfo.retain ]

ParseIdle ==
    [ n |-> 0, op |-> "none",
      pre |-> DescriptorOf(<< NoType, 0 >>, 0, NoPublishInfo),
      pkt |-> DescriptorOf(<< NoType, 0 >>, 0, NoPublishInfo),
      dec |-> [ status |-> "none", idWritten |-> FALSE, packetId |-> 0,
                info |-> NoInfo ],
      ret |-> "none", sent |-> NoPublishInfo ]

(* _deserialize...Wrapper( pkt ) with the decoder doing dec; sent is the    *)
(* request the packet was built from when this process built it.            *)
Deserialize(op, pkt, dec, sent) ==
    /\ parse.n < MaxParses
    /\ LET pIncomingPacket ==
               [ type |-> pkt.type, pRemainingData |-> pkt.rx,
                 remainingLength |-> pkt.remainingLength ]
           status == convertReturnCode(dec.status)
           decoded == [ pkt EXCEPT !.packetIdentifier =
                           IF dec.idWritten THEN dec.packetId ELSE @ ]
           after == IF op = "Publish" /\ status = IOT_MQTT_SUCCESS
                    THEN [ decoded EXCEPT !.publishInfo =
                             CopyPublishInfo(dec.info, @) ]
                    ELSE decoded
       IN  /\ dec \in DecoderOutcomes(op, pIncomingPacket)
           /\ parse' = [ n |-> parse.n + 1, op |-> op, pre |-> pkt,
                         pkt |-> after, dec |-> dec, ret |-> status,
                         sent |-> sent ]
    /\ UNCHANGED << counterVars, genVars, wrapVars, convLog >>

(* The decoder outcome MQTTSuccess. *)
DecoderSuccess(op, pkt) ==
    CHOOSE d \in DecoderOutcomes(op,
                    [ type |-> pkt.type, pRemainingData |-> pkt.rx,
                      remainingLength |-> pkt.remainingLength ]) :
        d.status = MQTTSuccess

(* The PUBLISH packet the last call of the Publish builder handed over is   *)
(* received back and given to _deserializePublishWrapper.                   *)
RoundTrip(t) ==
    /\ call[t].pc = "done"
    /\ call[t].op = "Publish"
    /\ call[t].ret = IOT_MQTT_SUCCESS
    /\ out[t].pPacket # NULL
    /\ heap[out[t].pPacket].data.type = MQTT_PACKET_TYPE_PUBLISH
    /\ \E i \in PriorIdentifiers :
         LET pkt == DescriptorOf(heap[out[t].pPacket].data.bytes, i,
                                 StalePublishInfo)
         IN  Deserialize("Publish", pkt, DecoderSuccess("Publish", pkt),
                         call[t].req.publish)

(***************************************************************************)
(* Specifications.                                                          *)
(***************************************************************************)
InitAt(k) ==
    /\ startCalls = k
    /\ issued = k
    /\ nextPacketIdentifier = CounterAfter(k)
    /\ gen = [t \in Threads |-> GenIdle]
    /\ heap = << >>
    /\ handed = {}
    /\ call = [t \in Threads |-> CallIdle]
    /\ out = [t \in Threads |-> OutIdle]
    /\ ncalls = 0
    /\ convLog = << >>
    /\ parse = ParseIdle

Init == \E k \in StartCalls : InitAt(k)

(* Threads that call the generator directly. *)
NextGen == \E t \in Threads : GenCall(t) \/ GenReturn(t)

SpecGen == Init /\ [][NextGen]_vars

(* One thread that calls the serialize wrappers one after the other. *)
MainThread == 1

Next ==
    \/ \E op \in Builders : \E req \in Requests(op) :
         \E listResult \in 0 .. (Len(heap) + 1) : \E faults \in BOOLEAN :
           Begin(MainThread, op, req, listResult, faults)
    \/ \E s \in BuilderStatus : \E sz \in PacketSizes :
         SizeQuery(MainThread, s, sz)
    \/ NextId(MainThread)
    \/ \E result \in 0 .. (Len(heap) + 1) : Alloc(MainThread, result)
    \/ \E s \in BuilderStatus : Serialize(MainThread, s)
    \/ Final(MainThread)

Spec == Init /\ [][Next]_vars

(* One thread that builds PUBLISH packets of every QoS; the size query     *)
(* reports the size the packet has on the wire.                             *)
NextPub ==
    \/ \E req \in PublishRequests :
         Begin(MainThread, "Publish", req, NULL, FALSE)
    \/ \E s \in BuilderStatus :
         SizeQuery(MainThread, s,
                   PublishPacketSize(call[MainThread].publishInfo))
    \/ NextId(MainThread)
    \/ \E result \in 0 .. (Len(heap) + 1) : Alloc(MainThread, result)
    \/ \E s \in BuilderStatus : Serialize(MainThread, s)
    \/ Final(MainThread)
    \/ RoundTrip(MainThread)

SpecPub == Init /\ [][NextPub]_vars

(* Threads that call the wrappers that generate an identifier, their steps  *)
(* interleaved.  The subscription list is obtained, a size query reports    *)
(* the smallest packet, and a collaborator that fails reports a bad         *)
(* parameter.                                                               *)
ConcStatus == { MQTTSuccess, MQTTBadParameter }

NextConc ==
    \E t \in Threads :
        \/ \E op \in IdBuilders : \E req \in Requests(op) :
             Begin(t, op, req,
                   IF op \in ListBuilders THEN Len(heap) + 1 ELSE NULL, FALSE)
        \/ \E s \in ConcStatus : SizeQuery(t, s, 2)
        \/ NextId(t)
        \/ \E result \in 0 .. (Len(heap) + 1) : Alloc(t, result)
        \/ \E s \in ConcStatus : Serialize(t, s)
        \/ Final(t)

SpecConc == Init /\ [][NextConc]_vars

(* The deserialize wrappers applied to received packets, the decoder       *)
(* reporting any status.                                                    *)
NextParse ==
    \E op \in Parsers : \E pkt \in Descriptors(op) :
        \E dec \in DecoderOutcomes(op,
                      [ type |-> pkt.type, pRemainingData |-> pkt.rx,
                        remainingLength |-> pkt.remainingLength ]) :
            Deserialize(op, pkt, dec, NoPublishInfo)

SpecParse == InitAt([pass |-> 0, n |-> 0]) /\ [][NextParse]_vars

(* One thread that calls the serialize and the deserialize wrappers one    *)
(* after the other: every builder, Publish with every QoS, and every        *)
(* parser, the collaborators succeeding or failing.  The subscription list  *)
(* is obtained, a size query reports the smallest packet, a parser is       *)
(* given one packet of its type, and the thread makes MaxCalls calls in     *)
(* all.                                                                     *)
SeqDecoderStatus == { MQTTSuccess, MQTTBadResponse }

SeqDescriptors(op) ==
    { d \in Descriptors(op) :
        /\ d.packetIdentifier = 0
        /\ d.type = IncomingTypeOf(op) }

NextSeq ==
    \/ \E op \in Builders :
         \E req \in IF op = "Publish" THEN PublishRequests ELSE Requests(op) :
           /\ ncalls + parse.n < MaxCalls
           /\ Begin(MainThread, op, req,
                    IF op \in ListBuilders THEN Len(heap) + 1 ELSE NULL, FALSE)
    \/ \E s \in ConcStatus : SizeQuery(MainThread, s, 2)
    \/ NextId(MainThread)
    \/ \E result \in 0 .. (Len(heap) + 1) : Alloc(MainThread, result)
    \/ \E s \in ConcStatus : Serialize(MainThread, s)
    \/ Final(MainThread)
    \/ /\ call[MainThread].pc \in { "idle", "done" }
       /\ ncalls + parse.n < MaxCalls
       /\ \E op \in Parsers : \E pkt \in SeqDescriptors(op) :
            \E dec \in DecoderOutcomes(op,
                          [ type |-> pkt.type, pRemainingData |-> pkt.rx,
                            remainingLength |-> pkt.remainingLength ]) :
                /\ dec.status \in SeqDecoderStatus
                /\ Deserialize(op, pkt, dec, NoPublishInfo)

SpecSeq == Init /\ [][NextSeq]_vars

(* The translator applied to statuses the caller supplies. *)
NextConv == \E s \in MQTTStatus_t : Convert(s)

SpecConv == InitAt([pass |-> 0, n |-> 0]) /\ [][NextConv]_vars

(***************************************************************************)
(* Properties of the identifier generator (SpecGen).                        *)
(***************************************************************************)
(* The identifier the k-th call returns: (2k - 1) mod 65536, which depends  *)
(* on k = pass * 32768 + n through n alone.                                 *)
ExpectedId(k) == (2 * k.n + TwoTo16 - 1) % TwoTo16

(* The values the generator has produced so far, each with the thread and   *)
(* the position of the call that obtained it; a call that has done its      *)
(* atomic add and not yet returned counts with the value it will return.    *)
Fetched ==
    UNION { { <<t, i, gen[t].got[i]>> : i \in 1 .. Len(gen[t].got) }
            \cup (IF gen[t].pc = "fetched"
                  THEN { <<t, Len(gen[t].got) + 1, gen[t].ret>> }
                  ELSE {})
          : t \in Threads }

(* C1: under every interleaving of the threads' calls, the values returned  *)
(* are pairwise distinct, each is an odd non-zero 16-bit value, and they    *)
(* are exactly the next values of the sequence: none is returned twice and  *)
(* none is skipped.                                                         *)
C1_ConcurrentIdsDistinct ==
    /\ \A a, b \in Fetched : a # b => a[3] # b[3]
    /\ \A a \in Fetched : a[3] \in 1 .. (TwoTo16 - 1) /\ a[3] % 2 = 1
    /\ { a[3] : a \in Fetched } =
           { ExpectedId(CallsPlus(startCalls, i))
             : i \in 1 .. Cardinality(Fetched) }

(* Both threads have made all their calls, interleaved. *)
C1_Witness ==
    /\ \A t \in Threads : Len(gen[t].got) = MaxGenCalls
    /\ \E t \in Threads : \E u \in Threads :
         /\ t # u
         /\ gen[t].got[1] < gen[u].got[1]
         /\ gen[u].got[1] < gen[t].got[2]

(* One thread has made every call of the run. *)
Sequential(t) ==
    \A u \in Threads \ {t} : gen[u].got = << >> /\ gen[u].pc = "ready"

(* C2: called sequentially, the k-th call since the process started returns *)
(* (2k - 1) mod 65536: 1 on the first call, then the previous value plus 2, *)
(* 65535 being followed by 1.                                               *)
C2_SequentialSequence ==
    \A t \in Threads :
        Sequential(t) =>
            LET got == gen[t].got
            IN  /\ \A i \in 1 .. Len(got) :
                     got[i] = ExpectedId(CallsPlus(startCalls, i))
                /\ startCalls = [pass |-> 0, n |-> 0] /\ Len(got) >= 1
                       => got[1] = 1
                /\ \A i \in 1 .. (Len(got) - 1) :
                     got[i + 1] = IF got[i] = TwoTo16 - 1 THEN 1
                                  ELSE got[i] + 2

(* The 32768th call returned 65535 and the call after it returned 1. *)
C2_Witness ==
    \E t \in Threads :
        /\ Sequential(t)
        /\ startCalls = [pass |-> 0, n |-> TwoTo15 - 1]
        /\ Len(gen[t].got) >= 2
        /\ gen[t].got[1] = TwoTo16 - 1
        /\ gen[t].got[2] = 1

(* C3: every value the generator returns is odd, hence not zero, also       *)
(* after the 32-bit counter has wrapped modulo 2^32.                        *)
C3_IdsAlwaysOdd ==
    \A a \in Fetched : a[3] % 2 = 1 /\ a[3] # 0

(* The counter has wrapped modulo 2^32 and a value was returned after it. *)
C3_Witness ==
    /\ startCalls.pass = TwoTo16 - 1
    /\ nextPacketIdentifier.hi = 0
    /\ \E a \in Fetched : \E b \in Fetched : a[3] = TwoTo16 - 1 /\ b[3] = 3

(***************************************************************************)
(* Properties of the serialize wrappers (Spec).                             *)
(***************************************************************************)
Returned(t) == call[t].pc = "done"

(* The blocks a call has allocated. *)
BlocksOf(t) ==
    { a \in DOMAIN heap : heap[a].by = <<t, call[t].id>> }

(* C4: a call whose size query reports a failure allocates no memory, does  *)
(* not advance the identifier counter, does not call serialize and returns  *)
(* the translation of the size-query status.                                *)
C4_SizeFailureShortCircuits ==
    \A t \in Threads :
        Returned(t) /\ call[t].sizeStatus \notin {"none", MQTTSuccess} =>
            /\ BlocksOf(t) = {}
            /\ nextPacketIdentifier = call[t].pre.counter
            /\ call[t].idCalls = 0
            /\ call[t].serStatus = "none"
            /\ call[t].ret = convertReturnCode(call[t].sizeStatus)

C6_FailureLeavesOutputs ==
    \A t \in Threads :
        Returned(t) /\ call[t].ret # IOT_MQTT_SUCCESS =>
            out[t] = call[t].pre.out

(* C7: once the calls have returned, every packet buffer that is still      *)
(* allocated was handed to a caller by a successful call.                   *)
C7_NoLeakOnFailure ==
    (\A t \in Threads : call[t].pc \in {"idle", "done"}) =>
        \A a \in DOMAIN heap : heap[a].use = "packet" => a \in handed

(* C8: a call whose packet buffer allocation returned NULL returns "no      *)
(* memory", and passes the NULL buffer neither to serialize nor to the      *)
(* caller.                                                                  *)
C8_AllocFailureIsNoMemory ==
    \A t \in Threads :
        Returned(t) /\ call[t].mallocResult = NULL =>
            /\ call[t].ret = IOT_MQTT_NO_MEMORY
            /\ call[t].serBuffer # NULL
            /\ out[t].pPacket = call[t].pre.out.pPacket

(* C9: the Puback builder returns the translation of the status its         *)
(* serialize call returned, and hands no buffer over when that is a         *)
(* failure.                                                                 *)
C9_PubackStatusFromSerialize ==
    \A t \in Threads :
        Returned(t) /\ call[t].op = "Puback" =>
            /\ call[t].ret = convertReturnCode(call[t].serStatus)
            /\ call[t].serStatus # MQTTSuccess =>
                   /\ call[t].ret # IOT_MQTT_SUCCESS
                   /\ out[t].pPacket = call[t].pre.out.pPacket

(***************************************************************************)
(* Properties of the status translator (SpecConv).                          *)
(***************************************************************************)
(* C10: "no data available" and "keep-alive timeout" are translated to      *)
(* "timeout".                                                               *)
C10_TimeoutStatuses ==
    \A i \in DOMAIN convLog :
        convLog[i].mqttStatus \in {MQTTNoDataAvailable, MQTTKeepAliveTimeout}
            => convLog[i].status = IOT_MQTT_TIMEOUT

(* C11: "illegal state" and "state collision" are translated to "bad        *)
(* response".                                                               *)
C11_IllegalStateStatuses ==
    \A i \in DOMAIN convLog :
        convLog[i].mqttStatus \in {MQTTIllegalState, MQTTStateCollision}
            => convLog[i].status = IOT_MQTT_BAD_RESPONSE

(* C12: success, bad parameter, out of memory, send failed, receive failed, *)
(* bad response and server refused are each translated to the one client    *)
(* status of their row of the table.                                        *)
C12_Table ==
    << <<MQTTSuccess, IOT_MQTT_SUCCESS>>,
       <<MQTTBadParameter, IOT_MQTT_BAD_PARAMETER>>,
       <<MQTTNoMemory, IOT_MQTT_NO_MEMORY>>,
       <<MQTTSendFailed, IOT_MQTT_NETWORK_ERROR>>,
       <<MQTTRecvFailed, IOT_MQTT_NETWORK_ERROR>>,
       <<MQTTBadResponse, IOT_MQTT_BAD_RESPONSE>>,
       <<MQTTServerRefused, IOT_MQTT_SERVER_REFUSED>> >>

C12_NamedRows ==
    \A i \in DOMAIN convLog :
        \A r \in DOMAIN C12_Table :
            convLog[i].mqttStatus = C12_Table[r][1]
                => convLog[i].status = C12_Table[r][2]

(* Receive failed and out of memory have been translated. *)
C12_Witness ==
    /\ \E i \in DOMAIN convLog : convLog[i].mqttStatus = MQTTRecvFailed
    /\ \E i \in DOMAIN convLog : convLog[i].mqttStatus = MQTTNoMemory

(***************************************************************************)
(* Properties of the Publish and Puback builders.                           *)
(***************************************************************************)
(* The wire descriptor info carries the fields of the request p, and its    *)
(* duplicate flag is set exactly for QoS 1.                                 *)
C16_Translated(info, p) ==
    /\ info.dup = (p.qos = IOT_MQTT_QOS_1)
    /\ info.retain = p.retain
    /\ info.pTopicName = p.pTopicName
    /\ info.topicNameLength = p.topicNameLength
    /\ info.pPayload = p.pPayload
    /\ info.payloadLength = p.payloadLength
    /\ info.qos = p.qos

(* C16: the wire descriptor the Publish builder passes to the size query    *)
(* and to the serialize step has its duplicate flag true exactly when the   *)
(* request's QoS is 1, and every other field copied from the request.       *)
C16_PublishDescriptor ==
    \A t \in Threads :
        call[t].op = "Publish" =>
            /\ call[t].sizeStatus # "none" =>
                   C16_Translated(call[t].sizeInfo, call[t].req.publish)
            /\ call[t].serStatus # "none" =>
                   C16_Translated(call[t].serInfo, call[t].req.publish)

(* A Publish call of QoS 1 with the retain flag set has been serialized. *)
C16_Witness ==
    \E t \in Threads :
        /\ call[t].op = "Publish"
        /\ call[t].serStatus # "none"
        /\ call[t].req.publish.qos = IOT_MQTT_QOS_1
        /\ call[t].req.publish.retain
        /\ call[t].serInfo.dup

IsPrefix(a, b) == Len(a) <= Len(b) /\ a = SubSeq(b, 1, Len(a))

C19_Order == << "size", "id", "alloc", "serialize" >>

(* C19: the steps of a Subscribe, Unsubscribe or Publish call are taken in  *)
(* the order size query, identifier, allocation, serialize; the identifier  *)
(* is generated at most once, only after a size query that succeeded and    *)
(* before the serialize step, and a call that generated none has left the   *)
(* counter alone.                                                           *)
C19_StepOrder ==
    \A t \in Threads :
        call[t].op \in IdBuilders /\ call[t].pc # "idle" =>
            /\ IsPrefix(call[t].steps, C19_Order)
            /\ call[t].idCalls <= 1
            /\ call[t].idCalls = 1 <=> Len(call[t].steps) >= 2
            /\ call[t].idCalls = 1 => call[t].sizeStatus = MQTTSuccess
            /\ call[t].sizeStatus # MQTTSuccess =>
                   /\ Len(call[t].steps) <= 1
                   /\ nextPacketIdentifier = call[t].pre.counter
            /\ call[t].serStatus # "none" => call[t].idCalls = 1

(* A Publish call has gone through its four steps and returned. *)
C19_Witness ==
    \E t \in Threads :
        /\ Returned(t) /\ call[t].op = "Publish"
        /\ call[t].steps = C19_Order
        /\ nextPacketIdentifier # call[t].pre.counter

(***************************************************************************)
(* Concurrent builders (SpecConc).                                          *)
(***************************************************************************)
(* The buffers handed to callers that a serializer has written. *)
WrittenBuffers == { b \in handed : heap[b].data.type # NoType }

(* C20: under every interleaving of Subscribe, Unsubscribe and Publish      *)
(* calls, a call that returns success has written to its identifier output  *)
(* the identifier it passed to its serialize step, which is the one in the  *)
(* buffer it hands over, and no two calls output the same identifier.       *)
C20_IdentifierMatchesPacket ==
    /\ \A t \in Threads :
           Returned(t) /\ call[t].op \in IdBuilders
                       /\ call[t].ret = IOT_MQTT_SUCCESS =>
               /\ out[t].packetIdentifier = call[t].serPacketId
               /\ call[t].serBuffer = out[t].pPacket
               /\ (out[t].pPacket # NULL /\ call[t].serStatus = MQTTSuccess) =>
                      heap[out[t].pPacket].data.packetId =
                          out[t].packetIdentifier
    /\ \A a, b \in WrittenBuffers :
           a # b => heap[a].data.packetId # heap[b].data.packetId
    /\ \A t, u \in Threads :
           ( /\ t # u
             /\ Returned(t) /\ call[t].ret = IOT_MQTT_SUCCESS
             /\ Returned(u) /\ call[u].ret = IOT_MQTT_SUCCESS )
           => out[t].packetIdentifier # out[u].packetIdentifier

(* Two threads whose calls overlapped have both returned success with a     *)
(* written buffer.                                                          *)
C20_Witness ==
    \E t, u \in Threads :
        /\ t # u
        /\ Returned(t) /\ call[t].ret = IOT_MQTT_SUCCESS
        /\ Returned(u) /\ call[u].ret = IOT_MQTT_SUCCESS
        /\ call[t].id < call[u].id
        /\ call[u].pre.counter = call[t].pre.counter
        /\ out[t].pPacket \in WrittenBuffers
        /\ out[u].pPacket \in WrittenBuffers

(***************************************************************************)
(* Properties of the deserialize wrappers (SpecParse).                      *)
(***************************************************************************)
(* The output fields of the descriptor hold what they held before the call. *)
OutputsUnchanged ==
    /\ parse.pkt.packetIdentifier = parse.pre.packetIdentifier
    /\ parse.pkt.publishInfo = parse.pre.publishInfo

(* C13: a parser whose decoder reports "no data available" returns          *)
(* "timeout" and leaves the identifier and the publish info of the          *)
(* descriptor as they were before the call.                                 *)
C13_NoDataIsTimeout ==
    parse.n > 0 /\ parse.dec.status = MQTTNoDataAvailable =>
        /\ parse.ret = IOT_MQTT_TIMEOUT
        /\ OutputsUnchanged

(* C14: a parser that returns a status other than success has left the      *)
(* identifier and the publish info of the descriptor as the caller          *)
(* provided them.                                                           *)
C14_FailureWritesNothing ==
    parse.n > 0 /\ parse.ret # IOT_MQTT_SUCCESS => OutputsUnchanged

(* C15: when the Publish parser returns success, the decoder succeeded in   *)
(* this call, the six fields of the caller's publish info are the ones it   *)
(* decoded from the packet, and the identifier is the decoded one.          *)
C15_PublishFieldsDecoded ==
    parse.n > 0 /\ parse.op = "Publish" /\ parse.ret = IOT_MQTT_SUCCESS =>
        LET d == DecodePublish(parse.pre.type, parse.pre.rx)
            got == parse.pkt.publishInfo
        IN  /\ parse.dec.status = MQTTSuccess
            /\ got.qos = d.info.qos
            /\ got.pPayload = d.info.pPayload
            /\ got.payloadLength = d.info.payloadLength
            /\ got.pTopicName = d.info.pTopicName
            /\ got.topicNameLength = d.info.topicNameLength
            /\ got.retain = d.info.retain
            /\ parse.pkt.packetIdentifier = d.packetId

(***************************************************************************)
(* Round trip of a PUBLISH (SpecPub).                                       *)
(***************************************************************************)
(* C18: a PUBLISH built from a request and given back to the Publish        *)
(* parser, the decoder inverting the encoder, is parsed with success, and   *)
(* the publish info the caller gets has the topic bytes, the payload        *)
(* bytes, the QoS and the retain flag of the request.                       *)
C18_RoundTrip ==
    parse.n > 0 /\ parse.sent # NoPublishInfo =>
        LET got == parse.pkt.publishInfo
            sent == parse.sent
            rx == [ rx |-> parse.pkt.rx ]
        IN  /\ parse.ret = IOT_MQTT_SUCCESS
            /\ got.retain = sent.retain
            /\ got.qos = sent.qos
            /\ got.topicNameLength = sent.topicNameLength
            /\ got.payloadLength = sent.payloadLength
            /\ BytesAt(rx, got.pTopicName, got.topicNameLength)
                 = BytesAt(CallerMemory, sent.pTopicName, sent.topicNameLength)
            /\ BytesAt(rx, got.pPayload, got.payloadLength)
                 = BytesAt(CallerMemory, sent.pPayload, sent.payloadLength)

(* The request of the scenario, topic "a/b", payload 01 02, QoS 1, with     *)
(* the retain flag set, has made the round trip.                            *)
C18_Witness ==
    /\ parse.n > 0
    /\ parse.sent = PublishInfoOf(IOT_MQTT_QOS_1, TRUE)
    /\ parse.ret = IOT_MQTT_SUCCESS
    /\ BytesAt([ rx |-> parse.pkt.rx ], parse.pkt.publishInfo.pTopicName,
               parse.pkt.publishInfo.topicNameLength) = << 97, 47, 98 >>
    /\ BytesAt([ rx |-> parse.pkt.rx ], parse.pkt.publishInfo.pPayload,
               parse.pkt.publishInfo.payloadLength) = << 1, 2 >>

(***************************************************************************)
(* Memory a builder still holds after it has returned.                      *)
(***************************************************************************)
(* C21: once a Subscribe or Unsubscribe call has returned, with success or  *)
(* with a failure, the subscription list it allocated for the call is no    *)
(* longer allocated.                                                        *)
C21_ListDiscarded ==
    \A t \in Threads :
        Returned(t) /\ call[t].op \in ListBuilders =>
            \A a \in BlocksOf(t) : heap[a].use # "list"

(***************************************************************************)
(* The fallback of the status translator (SpecConv).                        *)
(***************************************************************************)
(* The statuses the table of the translator names. *)
C22_Named ==
    { C12_Table[r][1] : r \in DOMAIN C12_Table }
    \cup { MQTTNoDataAvailable, MQTTKeepAliveTimeout, MQTTIllegalState,
           MQTTStateCollision }

(* C22: every status that is not one of the statuses the table names is     *)
(* translated to success.                                                   *)
C22_FallbackIsSuccess ==
    \A i \in DOMAIN convLog :
        convLog[i].mqttStatus \notin C22_Named
            => convLog[i].status = IOT_MQTT_SUCCESS

(* A status the table does not name has been translated. *)
C22_Witness ==
    \E i \in DOMAIN convLog :
        /\ convLog[i].mqttStatus \notin C22_Named
        /\ convLog[i].status = IOT_MQTT_SUCCESS

(***************************************************************************)
(* The identifier counter across the wrappers (SpecSeq).                    *)
(***************************************************************************)
(* A call in progress or returned has advanced the counter when it is a     *)
(* Subscribe, Unsubscribe or Publish call whose size query succeeded and    *)
(* that is past its identifier step.                                        *)
C23_Advanced(c) ==
    /\ c.op \in IdBuilders
    /\ c.sizeStatus = MQTTSuccess
    /\ c.pc # "id"

(* During and after the call of the calling thread the counter is one step  *)
(* (+2) past its value at the start of the call in the calls that advance   *)
(* it, and at that value in all the others.                                 *)
C23_Inv ==
    LET c == call[MainThread]
    IN  c.pc # "idle" =>
            nextPacketIdentifier =
                IF C23_Advanced(c)
                THEN U32Add(c.pre.counter, 2) ELSE c.pre.counter

(* A step that changes the counter is the identifier step of a Subscribe,   *)
(* Unsubscribe or Publish call after a size query that succeeded, and adds  *)
(* 2; no step of a parser changes it.                                       *)
C23_Step ==
    nextPacketIdentifier' # nextPacketIdentifier =>
        /\ parse' = parse
        /\ nextPacketIdentifier' = U32Add(nextPacketIdentifier, 2)
        /\ \E t \in Threads :
             /\ call[t].pc = "id"
             /\ call[t].op \in IdBuilders
             /\ call[t].sizeStatus = MQTTSuccess
             /\ call'[t].idCalls = 1

(* C23: the counter advances by exactly 2 in every Subscribe, Unsubscribe   *)
(* or Publish call whose size query succeeds, whatever the QoS of Publish   *)
(* and whatever the allocation and the serialize step do afterwards, and    *)
(* is never set back; the other builders and the parsers leave it alone.    *)
C23_CounterFrame == []C23_Inv /\ [][C23_Step]_vars

(* After a parser call, a Publish call of QoS 0 whose allocation and        *)
(* serialize step failed has returned a failure with the counter advanced.  *)
C23_Witness ==
    LET c == call[MainThread]
    IN  /\ parse.n > 0
        /\ Returned(MainThread)
        /\ c.op = "Publish"
        /\ c.req.publish.qos = IOT_MQTT_QOS_0
        /\ c.mallocResult = NULL
        /\ c.serStatus = MQTTBadParameter
        /\ c.ret # IOT_MQTT_SUCCESS
        /\ nextPacketIdentifier = U32Add(c.pre.counter, 2)
====
